---- MODULE Spec2Model ----
(***************************************************************************)
(* Control-plane loops of a gateway node:                                  *)
(*   - the analytics purge pipeline   (rpc/rpc_analytics_purger.go)        *)
(*   - the configuration push / pull handlers and the load reporter        *)
(*     (gateway/distributed_rate_limiter.go)                               *)
(* Each subsystem has its own specification over the shared variables.     *)
(***************************************************************************)
EXTENDS Integers, Sequences, FiniteSets, TLC

(* ------------------------------ bounds -------------------------------- *)

\* Number of analytics records the gateway enqueues in one behaviour.
MaxRecords == 3

(* ----------------------- analytics purge pipeline ---------------------- *)

VARIABLES
    store,            \* Purger.Store: queue key -> elements, oldest first
    nextId,           \* id of the next record the gateway will enqueue
    pc,               \* position of the PurgeLoop goroutine
    i,                \* PurgeCache's loop variable (bucket index)
    analyticsValues,  \* PurgeCache's local: the elements just fetched
    calls,            \* calls PurgeCache made in the current (or last) cycle
    fetched,          \* record id -> times GetAndDeleteSet returned it
    forwarded,        \* record id -> PurgeAnalyticsData calls that carried it
    tick,             \* a tick is waiting in the ticker's channel
    ctxDone,          \* the process-wide context has been cancelled
    hostname,         \* gw.hostDetails.Hostname
    nodeID,           \* gw.GetNodeID()
    PID,              \* gw.hostDetails.PID
    memConfig,        \* gw.GetConfig(): the configuration in memory
    confFile,         \* the primary configuration file, confPaths[0]
    backupFiles,      \* the backup files in the working directory
    now,              \* time.Now(), in seconds
    fx,               \* the outside effects of the handler or tick last run
    drl,              \* gw.DRLManager: "nil", "notReady" or "ready"
    tags,             \* gw.GetConfig().DBAppConfOptions.Tags
    loadPc,           \* position of the load-reporter goroutine
    loadTicks,        \* iterations the load-reporter loop has run
    delivered,        \* load-report messages the bus has delivered so far
    addedFuncs,       \* rpc.addedFuncs: the names marked as registered
    dispatcher,       \* rpc.dispatcher: name -> times AddFunc was called
    connPc,           \* caller -> its position in Purger.Connect
    connects,         \* Purger.Connect invocations that have returned
    clientConnected   \* values.ClientIsConnected()

purgeVars == <<store, nextId, pc, i, analyticsValues, calls, fetched,
               forwarded, tick>>
nodeVars == <<hostname, nodeID, PID>>
confVars == <<memConfig, confFile, backupFiles, now>>
loadVars == <<drl, tags, loadPc, loadTicks, delivered>>
connVars == <<addedFuncs, dispatcher, connPc, connects, clientConnected>>
vars == <<purgeVars, ctxDone, nodeVars, confVars, fx, loadVars, connVars>>

\* What the purge pipeline never touches.
notPurge == <<nodeVars, confVars, fx, loadVars, connVars>>

ANALYTICS_KEYNAME == "tyk-system-analytics"

\* for i := -1; i < 10; i++
FirstBucket == -1
BucketLimit == 10
Buckets == FirstBucket .. (BucketLimit - 1)

\* The queue key of bucket b: the bare key name for -1, "<name>_<b>" otherwise.
analyticsKeyName(b) ==
    IF b = -1 THEN <<ANALYTICS_KEYNAME>> ELSE <<ANALYTICS_KEYNAME, b>>

Keys == {analyticsKeyName(b) : b \in Buckets}

\* The queues the gateway's request path writes to in this model: the legacy
\* key, the first numbered key and the last one.
EnqueueBuckets == {FirstBucket, 0, BucketLimit - 1}

RecordIds == 1 .. MaxRecords

\* What an enqueued element can be: a well-formed msgpack record, bytes that
\* do not decode, or a record that decodes but cannot be rendered as JSON
\* (a NaN coordinate).
Encodings == {"msgpack", "garbage", "msgpack-nan"}

Element(id, enc) == [id |-> id, enc |-> enc]

\* The nil interface value left in a slice slot that was never assigned.
Nil == [id |-> 0, json |-> "null"]

\* decodeAnalyticsRecord: msgpack.Unmarshal of the element.
decodeAnalyticsRecord(encoded) ==
    IF encoded.enc = "garbage"
    THEN [err |-> TRUE, decoded |-> Nil]
    ELSE [err |-> FALSE,
          decoded |-> [id |-> encoded.id,
                       json |-> IF encoded.enc = "msgpack-nan"
                                THEN "unsupported" ELSE "object"]]

\* processAnalyticsValues: keys has one slot per fetched element; a slot is
\* assigned only when its element decodes.
processAnalyticsValues(vals) ==
    [keys |-> [j \in 1 .. Len(vals) |->
                 IF decodeAnalyticsRecord(vals[j]).err
                 THEN Nil
                 ELSE decodeAnalyticsRecord(vals[j]).decoded],
     failedRecords |->
         Cardinality({j \in 1 .. Len(vals) : decodeAnalyticsRecord(vals[j]).err})]

\* json.Marshal(keys): an array with one JSON value per slot; it fails when a
\* slot holds a value JSON cannot represent.
jsonMarshal(keys) ==
    IF \E j \in 1 .. Len(keys) : keys[j].json = "unsupported"
    THEN [err |-> TRUE, data |-> <<>>]
    ELSE [err |-> FALSE, data |-> keys]

\* Store.GetAndDeleteSet(key): returns every element queued under key and
\* leaves the queue empty, atomically.
GetAndDeleteSetResult(key) == store[key]
GetAndDeleteSetStore(key) == [store EXCEPT ![key] = <<>>]

Bump(f, ids) == [r \in DOMAIN f |-> IF r \in ids THEN f[r] + 1 ELSE f[r]]

IdsOf(seq) == {seq[j].id : j \in 1 .. Len(seq)} \ {0}

\* The gateway's request path appends one element to one of the queues.
Enqueue ==
    /\ nextId <= MaxRecords
    /\ \E b \in EnqueueBuckets, enc \in Encodings :
          store' = [store EXCEPT ![analyticsKeyName(b)] =
                        Append(@, Element(nextId, enc))]
    /\ nextId' = nextId + 1
    /\ UNCHANGED <<pc, i, analyticsValues, calls, fetched, forwarded, tick, ctxDone,
                   notPurge>>

\* time.Ticker: a tick is dropped when the previous one was not yet received.
TickerFire ==
    /\ ~tick
    /\ tick' = TRUE
    /\ UNCHANGED <<store, nextId, pc, i, analyticsValues, calls, fetched,
                   forwarded, ctxDone, notPurge>>

Cancel ==
    /\ ~ctxDone
    /\ ctxDone' = TRUE
    /\ UNCHANGED <<purgeVars, notPurge>>

\* PurgeLoop: case <-ctx.Done(): return
PurgeLoopDone ==
    /\ pc = "select"
    /\ ctxDone
    /\ pc' = "returned"
    /\ UNCHANGED <<store, nextId, i, analyticsValues, calls, fetched, forwarded,
                   tick, ctxDone, notPurge>>

\* Mutant: a tick is received while PurgeCache is still running.
ReceivesTick_AnyTime == tick

\* The loop receives from tick.C only in its select, which it reaches again
\* when the PurgeCache it called has returned.
ReceivesTick == pc = "select" /\ tick

\* PurgeLoop: case <-tick.C: r.PurgeCache()
PurgeLoopTick ==
    /\ ReceivesTick
    /\ tick' = FALSE
    /\ pc' = "ping"
    /\ calls' = <<>>
    /\ UNCHANGED <<store, nextId, i, analyticsValues, fetched, forwarded, ctxDone,
                   notPurge>>

\* Mutant: the return after the failed ping is missing.
AfterPingError_NoReturn == "fetch"

\* Where PurgeCache goes after a failed preflight ping: it returns.
AfterPingError == "select"

\* PurgeCache: the preflight FuncClientSingleton("Ping", nil).
Ping ==
    /\ pc = "ping"
    /\ \E err \in BOOLEAN :
          /\ calls' = Append(calls, <<"Ping", err>>)
          /\ pc' = IF err THEN AfterPingError ELSE "fetch"
    /\ i' = FirstBucket
    /\ UNCHANGED <<store, nextId, analyticsValues, fetched, forwarded, tick, ctxDone,
                   notPurge>>

\* The loop's i++ and i < 10 test: the next position and loop variable.
Continue(b) ==
    IF b + 1 < BucketLimit
    THEN [pc |-> "fetch", i |-> b + 1]
    ELSE [pc |-> "select", i |-> FirstBucket]

\* Mutant: an empty bucket ends the cycle.
AfterEmpty_Return(b) == [pc |-> "select", i |-> FirstBucket]

\* if len(analyticsValues) == 0 { continue }
AfterEmpty(b) == Continue(b)

\* PurgeCache: analyticsValues := r.Store.GetAndDeleteSet(analyticsKeyName);
\* an empty result continues with the next bucket.
Fetch ==
    /\ pc = "fetch"
    /\ LET key == analyticsKeyName(i)
           vals == GetAndDeleteSetResult(key)
       IN  /\ store' = GetAndDeleteSetStore(key)
           /\ calls' = Append(calls, <<"GetAndDeleteSet", key, vals>>)
           /\ fetched' = Bump(fetched, IdsOf(vals))
           /\ IF Len(vals) = 0
              THEN /\ pc' = AfterEmpty(i).pc
                   /\ i' = AfterEmpty(i).i
                   /\ analyticsValues' = <<>>
              ELSE /\ pc' = "forward"
                   /\ i' = i
                   /\ analyticsValues' = vals
    /\ UNCHANGED <<nextId, forwarded, tick, ctxDone, notPurge>>

\* Mutant: the failed call is retried with the same elements.
AfterPurgeError_Retry(b) ==
    [emit |-> <<<<"EmitErrorEvent", "PurgeAnalyticsData">>>>,
     pc |-> "forward", i |-> b]

\* Mutant: the failed call ends the cycle.
AfterPurgeError_Return(b) ==
    [emit |-> <<<<"EmitErrorEvent", "PurgeAnalyticsData">>>>,
     pc |-> "select", i |-> FirstBucket]

\* What PurgeCache does after a failed PurgeAnalyticsData call: it emits an
\* error event and goes on with the next bucket.
AfterPurgeError(b) ==
    [emit |-> <<<<"EmitErrorEvent", "PurgeAnalyticsData">>>>,
     pc |-> Continue(b).pc, i |-> Continue(b).i]

\* Mutant: the loop goes on with the next bucket after a marshal error.
AfterMarshalError_Continue(b) == Continue(b)

\* Where PurgeCache goes after json.Marshal failed: it returns.
AfterMarshalError(b) == [pc |-> "select", i |-> FirstBucket]

\* PurgeCache: decode, marshal and forward the fetched elements of bucket i.
Forward ==
    /\ pc = "forward"
    /\ LET p == processAnalyticsValues(analyticsValues)
           m == jsonMarshal(p.keys)
           logged == Append(calls, <<"Debugf", p.failedRecords>>)
       IN  IF m.err
           THEN /\ calls' = logged
                /\ pc' = AfterMarshalError(i).pc
                /\ i' = AfterMarshalError(i).i
                /\ forwarded' = forwarded
           ELSE \E err \in BOOLEAN :
                  /\ forwarded' = Bump(forwarded, IdsOf(m.data))
                  /\ IF err
                     THEN /\ calls' = Append(logged, <<"PurgeAnalyticsData", m.data, TRUE>>)
                                        \o AfterPurgeError(i).emit
                          /\ pc' = AfterPurgeError(i).pc
                          /\ i' = AfterPurgeError(i).i
                     ELSE /\ calls' = Append(logged, <<"PurgeAnalyticsData", m.data, FALSE>>)
                          /\ pc' = Continue(i).pc
                          /\ i' = Continue(i).i
    /\ analyticsValues' = IF pc' = "forward" THEN analyticsValues ELSE <<>>
    /\ UNCHANGED <<store, nextId, fetched, tick, ctxDone, notPurge>>

NextPurge ==
    \/ Enqueue
    \/ TickerFire
    \/ Cancel
    \/ PurgeLoopDone
    \/ PurgeLoopTick
    \/ Ping
    \/ Fetch
    \/ Forward

(* ---------------------- configuration push / pull ---------------------- *)

\* Seconds the clock advances in one behaviour.
MaxClock == 1

\* Top-level keys of the configuration document, by their JSON names.
SanitizeFields == {"secret", "node_secret", "storage", "slave_options", "auth_override"}
ConfigKeys == SanitizeFields \cup {"listen_port", "allow_remote_config"}

\* The values a key takes in this model, as JSON text.
ValuesOf(k) ==
    CASE k = "listen_port" -> {"8080", "9090"}
      [] k = "allow_remote_config" -> {"true", "false"}
      [] k = "secret" -> {"s3cr3t"}
      [] OTHER -> {"{}"}

\* The zero value of a config.Config field.
ZeroOf(k) ==
    CASE k = "listen_port" -> "0"
      [] k = "allow_remote_config" -> "false"
      [] k = "secret" -> ""
      [] OTHER -> "{}"

\* JSON objects with the keys D: key -> value.
DocsOver(D) ==
    {d \in [D -> UNION {ValuesOf(k) : k \in D}] : \A k \in D : d[k] \in ValuesOf(k)}

\* A file is a JSON object, bytes that do not decode to one, or absent.
JsonFile(d) == [kind |-> "json", doc |-> d]
CorruptFile == [kind |-> "corrupt", doc |-> [k \in {} |-> ""]]
MissingFile == [kind |-> "missing", doc |-> [k \in {} |-> ""]]

\* config.Load(confPaths, &conf): the file's fields decoded into conf; a file
\* that cannot be read or decoded leaves conf as it was.
configLoad(file, conf) ==
    IF file.kind = "json"
    THEN [k \in DOMAIN conf |-> IF k \in DOMAIN file.doc THEN file.doc[k] ELSE conf[k]]
    ELSE conf

\* Mutant: the object is decoded into a fresh struct.
jsonUnmarshalInto_Fresh(conf, doc) ==
    [k \in DOMAIN conf |-> IF k \in DOMAIN doc THEN doc[k] ELSE ZeroOf(k)]

\* json.Unmarshal of an object into a struct: the fields the object names are
\* set, the others keep their value.
jsonUnmarshalInto(conf, doc) ==
    [k \in DOMAIN conf |-> IF k \in DOMAIN doc THEN doc[k] ELSE conf[k]]

\* A zero config.Config.
ZeroConfig == [k \in ConfigKeys |-> ZeroOf(k)]

\* Mutant: remote configuration is allowed on every node.
AllowRemoteConfig_Always(conf) == TRUE

\* gw.GetConfig().AllowRemoteConfig
AllowRemoteConfig(conf) == conf["allow_remote_config"] = "true"

\* ioutil.WriteFile: it succeeds, fails before the file is touched (the open
\* fails), or fails after the file was truncated.
WriteOutcomes == {"ok", "failed-untouched", "failed-partial"}

\* The content of a file after WriteFile(data) ended as outcome.
WriteFile(old, data, outcome) ==
    CASE outcome = "ok" -> JsonFile(data)
      [] outcome = "failed-partial" -> CorruptFile
      [] OTHER -> old

\* now.Format("Mon-Jan-_2-15-04-05-2006") + ".tyk.conf": one name per second.
BackupName(t) == <<".tyk.conf", t>>

\* confPaths[0]
PrimaryPath == <<"confPaths", 0>>

\* The directory after WriteFile(name, data) ended as outcome.
WriteBackup(dir, name, data, outcome) ==
    IF outcome = "failed-untouched"
    THEN dir
    ELSE [n \in DOMAIN dir \cup {name} |->
            IF n = name
            THEN WriteFile(MissingFile, data, outcome)
            ELSE dir[n]]

\* Messages on the bus.
Hostnames == {"h1", "h2"}
NodeIDs == {"", "n1"}

\* Configurations a peer pushes: the fields its JSON names.
PushedConfigurations ==
    {[k \in {"listen_port"} |-> "9090"],
     [k \in {"secret", "allow_remote_config"} |->
         IF k = "secret" THEN "s3cr3t" ELSE "false"]}

\* A ConfigPayload as it arrives: JSON that decodes, or one that does not.
PushPayloads ==
    [decodes : {TRUE}, Configuration : PushedConfigurations,
     ForHostname : Hostnames, ForNodeID : NodeIDs]
    \cup [decodes : {FALSE}, Configuration : {[k \in {} |-> ""]},
          ForHostname : {""}, ForNodeID : {""}]

\* How the two file writes of one push can end; the second is not reached
\* when the first fails.
PushOutcomes ==
    {<<"ok", w>> : w \in WriteOutcomes}
    \cup {<<b, "ok">> : b \in WriteOutcomes \ {"ok"}}

\* Mutant: both fields must match.
AddressedToThisNode_And(forHostname, forNodeID) ==
    forHostname = hostname /\ forNodeID = nodeID

\* The addressing check of both handlers: the message is dropped only when
\* the hostname differs and the node id differs.
AddressedToThisNode(forHostname, forNodeID) ==
    ~(forHostname # hostname /\ forNodeID # nodeID)

\* Mutant: the error of backupConfiguration is ignored.
BackupAllowsWrite_Ignored(outcome) == TRUE

\* handleNewConfiguration goes on to writeNewConfiguration only when
\* backupConfiguration returned no error.
BackupAllowsWrite(outcome) == outcome = "ok"

\* Mutant: the PID check is missing.
CanReload_Unchecked(myPID) == TRUE

\* handleNewConfiguration: a PID of 0 means there is nothing to signal.
CanReload(myPID) == myPID # 0

\* Mutant: the error of json.Unmarshal is ignored.
PayloadDecodes_Ignored(p) == TRUE

\* handleNewConfiguration: json.Unmarshal([]byte(payload), &configPayload)
\* returned no error.
PayloadDecodes(p) == p.decodes

\* Mutant: the signal is sent a second time.
ReloadSignals_Twice(myPID) ==
    << <<"Kill", myPID, "SIGUSR2">>, <<"Kill", myPID, "SIGUSR2">> >>

\* syscall.Kill(myPID, syscall.SIGUSR2)
ReloadSignals(myPID) == << <<"Kill", myPID, "SIGUSR2">> >>

\* handleNewConfiguration(payload), with the outcomes of its two file writes:
\* the files and the effects it leaves.
handleNewConfiguration(p, backupOutcome, writeOutcome) ==
    LET merged == jsonUnmarshalInto(configLoad(confFile, ZeroConfig), p.Configuration)
        none == [confFile |-> confFile, backupFiles |-> backupFiles, fx |-> <<>>]
        name == BackupName(now)
        backedUp == [confFile |-> confFile,
                     backupFiles |-> WriteBackup(backupFiles, name, memConfig, backupOutcome),
                     fx |-> << <<"WriteFile", name, backupOutcome>> >>]
        written == [confFile |-> WriteFile(confFile, merged, writeOutcome),
                    backupFiles |-> backedUp.backupFiles,
                    fx |-> Append(backedUp.fx, <<"WriteFile", PrimaryPath, writeOutcome>>)]
        myPID == PID
    IN  IF ~PayloadDecodes(p) THEN none
        ELSE IF ~AddressedToThisNode(p.ForHostname, p.ForNodeID) THEN none
        ELSE IF ~AllowRemoteConfig(memConfig) THEN none
        ELSE IF ~BackupAllowsWrite(backupOutcome) THEN backedUp
        ELSE IF writeOutcome # "ok" THEN written
        ELSE IF ~CanReload(myPID) THEN written
        ELSE [written EXCEPT !.fx = @ \o ReloadSignals(myPID)]

\* The bus delivers a configuration push.
HandleNewConfiguration ==
    /\ \E p \in PushPayloads, o \in PushOutcomes :
          LET r == handleNewConfiguration(p, o[1], o[2])
          IN  /\ confFile' = r.confFile
              /\ backupFiles' = r.backupFiles
              /\ fx' = << <<"handleNewConfiguration", p>> >> \o r.fx
    /\ UNCHANGED <<purgeVars, connVars, ctxDone, nodeVars, memConfig, now, loadVars>>

\* Mutant: one sensitive key is not in the list.
sanitizeConfig_KeepsNodeSecret(mc) ==
    [k \in DOMAIN mc \ (SanitizeFields \ {"node_secret"}) |-> mc[k]]

\* sanitizeConfig: delete(mc, field) for each of the five fields.
sanitizeConfig(mc) == [k \in DOMAIN mc \ SanitizeFields |-> mc[k]]

\* Mutant: the errors of os.Open and Decode are dropped.
getExistingConfig_NoError ==
    [err |-> FALSE, config |-> sanitizeConfig(confFile.doc)]

\* getExistingConfig: open and decode the file, then sanitize.
getExistingConfig ==
    IF confFile.kind = "json"
    THEN [err |-> FALSE, config |-> sanitizeConfig(confFile.doc)]
    ELSE [err |-> TRUE, config |-> [k \in {} |-> ""]]

PullRequests ==
    [decodes : {TRUE}, FromHostname : Hostnames, FromNodeID : NodeIDs]
    \cup [decodes : {FALSE}, FromHostname : {""}, FromNodeID : {""}]

\* handleSendMiniConfig(payload): the notifications it hands to the bus.
handleSendMiniConfig(p) ==
    IF ~p.decodes THEN <<>>
    ELSE IF ~AddressedToThisNode(p.FromHostname, p.FromNodeID) THEN <<>>
    ELSE IF getExistingConfig.err THEN <<>>
    ELSE << <<"Notify", "NoticeGatewayConfigResponse",
              [FromHostname |-> hostname, FromNodeID |-> nodeID,
               Configuration |-> getExistingConfig.config, TimeStamp |-> now]>> >>

\* The bus delivers a configuration pull request.
HandleSendMiniConfig ==
    /\ \E p \in PullRequests :
          fx' = << <<"handleSendMiniConfig", p>> >> \o handleSendMiniConfig(p)
    /\ UNCHANGED <<purgeVars, connVars, ctxDone, nodeVars, confVars, loadVars>>

ClockTick ==
    /\ now < MaxClock
    /\ now' = now + 1
    /\ UNCHANGED <<purgeVars, connVars, ctxDone, nodeVars, memConfig, confFile, backupFiles,
                   fx, loadVars>>

\* Files the node may start with: no file, a file that does not decode, and
\* JSON objects holding none, two or all of the sensitive keys.
InitialFiles ==
    {MissingFile, CorruptFile}
    \cup {JsonFile(d) :
            d \in UNION {DocsOver(S \cup P \cup A) :
                            S \in {{}, {"secret", "storage"}, SanitizeFields},
                            P \in {{}, {"listen_port"}},
                            A \in {{}, {"allow_remote_config"}}}}

NextConf ==
    \/ HandleNewConfiguration
    \/ HandleSendMiniConfig
    \/ ClockTick

(* ----------------------------- load reporter --------------------------- *)

\* Largest request rate GlobalRate.Rate() returns in this model.
MaxRate == 3

\* Iterations of the load-reporter loop in one behaviour.
MaxTicks == 3

\* Tag lists a node is configured with; a tag is a sequence of characters.
TagLists == {<<>>, <<<<"a">>>>, <<<<"a", "b">>, <<"c">>>>}

RECURSIVE Concat(_)
Concat(ss) == IF ss = <<>> THEN <<>> ELSE Head(ss) \o Concat(Tail(ss))

\* getTagHash: the tags concatenated in their configured order.
getTagHash == Concat(tags)

\* Mutant: the measured rate is reported as it is.
LoadPerSecOf_NoFloor(rate) == rate

\* NotifyCurrentServerStatus: a measured rate of 0 is reported as 1.
LoadPerSecOf(rate) == IF rate = 0 THEN 1 ELSE rate

\* NotifyCurrentServerStatus: gw.DRLManager != nil && gw.DRLManager.Ready()
DRLReady == drl = "ready"

\* NotifyCurrentServerStatus, with the rate GlobalRate.Rate() returns: the
\* calls it makes.
NotifyCurrentServerStatus(rate) ==
    IF ~DRLReady
    THEN <<>>
    ELSE << <<"Rate", rate>>,
            <<"Notify", "NoticeGatewayDRLNotification",
              [HostName |-> hostname, ID |-> nodeID,
               LoadPerSec |-> LoadPerSecOf(rate), TagHash |-> getTagHash]>> >>

\* Mutant: the status is sent whether or not the node is registered.
NodeRegistered_Unchecked == TRUE

\* startRateLimitNotifications: gw.GetNodeID() != ""
NodeRegistered == nodeID # ""

\* Mutant: the default branch is taken although ctx.Done() is ready.
SelectsDefault_Always == TRUE

\* A select with a default branch takes the default only when no case is
\* ready: here, when the context is not cancelled.
SelectsDefault == ~ctxDone

\* One iteration of the goroutine's loop taking the default branch, up to
\* its time.Sleep.
LoadReporterTick ==
    /\ loadPc = "loop"
    /\ SelectsDefault
    /\ loadTicks < MaxTicks
    /\ loadTicks' = loadTicks + 1
    /\ loadPc' = "sleep"
    /\ \E rate \in 0 .. MaxRate :
          fx' = IF NodeRegistered THEN NotifyCurrentServerStatus(rate) ELSE <<>>
    /\ UNCHANGED <<purgeVars, connVars, ctxDone, nodeVars, confVars, drl, tags, delivered>>

\* time.Sleep returns and the loop comes back to its select.
LoadReporterSleep ==
    /\ loadPc = "sleep"
    /\ loadPc' = "loop"
    /\ UNCHANGED <<purgeVars, connVars, ctxDone, nodeVars, confVars, fx, drl, tags,
                   delivered, loadTicks>>

\* case <-gw.ctx.Done(): return
LoadReporterDone ==
    /\ loadPc = "loop"
    /\ ctxDone
    /\ loadPc' = "returned"
    /\ UNCHANGED <<purgeVars, connVars, ctxDone, nodeVars, confVars, fx, drl, tags, delivered, loadTicks>>

\* setupDRL: the manager is created and initialised.
SetupDRL ==
    /\ drl = "nil"
    /\ drl' \in {"notReady", "ready"}
    /\ UNCHANGED <<purgeVars, connVars, ctxDone, nodeVars, confVars, fx, tags, delivered, loadPc, loadTicks>>

\* The DRL manager's readiness changes.
DRLReadiness ==
    /\ drl # "nil"
    /\ drl' = IF drl = "ready" THEN "notReady" ELSE "ready"
    /\ UNCHANGED <<purgeVars, connVars, ctxDone, nodeVars, confVars, fx, tags, delivered, loadPc, loadTicks>>

\* The node registers and gets its id.
Register ==
    /\ nodeID = ""
    /\ nodeID' = "n1"
    /\ UNCHANGED <<purgeVars, connVars, ctxDone, hostname, PID, confVars, fx, loadVars>>

(* ----------------------------- load consumer --------------------------- *)

\* Load-report messages the bus delivers in one behaviour.
MaxDelivered == 2

\* A payload that is not the JSON of a drl.Server.
UndecodableStatus == <<"not-json">>

\* The payloads of the load-report messages peers broadcast, and one that
\* does not decode.
ServerStatusPayloads ==
    {UndecodableStatus} \cup
    {<<"json", s>> : s \in [HostName : {"h2"}, ID : {"n2"},
                            LoadPerSec : {1, MaxRate},
                            TagHash : {Concat(t) : t \in TagLists}]}

\* What DRLManager.AddOrUpdateServer returns: nil, or the error for a report
\* from another tag group.
AddOrUpdateResults == {"nil", "different tag group"}

\* Mutant: the decode error is not looked at.
ServerStatusDecodes_Ignored(payload) == TRUE

\* onServerStatusReceivedHandler: json.Unmarshal(payload, &serverData) == nil
ServerStatusDecodes(payload) == payload[1] = "json"

\* onServerStatusReceivedHandler, with what AddOrUpdateServer would return:
\* the calls it makes.
onServerStatusReceivedHandler(payload, err) ==
    IF ~DRLReady
    THEN << <<"Warning", "DRL not ready, skipping this notification">> >>
    ELSE IF ~ServerStatusDecodes(payload)
    THEN << <<"Error", "DRL: Failed to unmarshal server data", payload>> >>
    ELSE << <<"AddOrUpdateServer", err, payload>> >> \o
         (IF err # "nil" THEN << <<"Debug", "AddOrUpdateServer error", payload>> >>
                         ELSE <<>>)

\* The bus delivers one load-report message to the handler.
HandleServerStatus ==
    /\ delivered < MaxDelivered
    /\ delivered' = delivered + 1
    /\ \E payload \in ServerStatusPayloads, err \in AddOrUpdateResults :
          fx' = << <<"onServerStatusReceivedHandler", payload>> >> \o
                onServerStatusReceivedHandler(payload, err)
    /\ UNCHANGED <<purgeVars, connVars, ctxDone, nodeVars, confVars, drl, tags,
                   loadPc, loadTicks>>

NextLoad ==
    \/ LoadReporterTick
    \/ LoadReporterSleep
    \/ LoadReporterDone
    \/ Cancel
    \/ SetupDRL
    \/ DRLReadiness
    \/ Register
    \/ HandleServerStatus

(* ------------------------------ RPC stubs ------------------------------ *)

\* The names Purger.Connect registers.
FuncNames == {"Ping", "PurgeAnalyticsData"}

\* Purger.Connect invocations in one behaviour.
MaxConnects == 3

\* The callers of Purger.Connect in the process.
Callers == {"start", "reload"}

\* Mutant: the name is not marked after AddFunc.
Marked_Forgotten(funcs, name) == funcs

\* addedFuncs[name] = true
Marked(funcs, name) == funcs \cup {name}

\* Caller c enters Connect while no other call is in progress, and passes the
\* ClientIsConnected check, which only logs.
ConnectBegin(c) ==
    /\ \A d \in Callers : connPc[d] = "idle"
    /\ connects < MaxConnects
    /\ connPc' = [connPc EXCEPT ![c] = "checkPing"]
    /\ fx' = IF clientConnected
             THEN <<>>
             ELSE << <<"Error", "RPC client is not connected, use Connect method 1st">> >>
    /\ UNCHANGED <<purgeVars, ctxDone, nodeVars, confVars, loadVars, addedFuncs,
                   dispatcher, connects, clientConnected>>

\* if !addedFuncs[name]
ConnectCheck(c, at, name, add, skip) ==
    /\ connPc[c] = at
    /\ connPc' = [connPc EXCEPT ![c] = IF name \in addedFuncs THEN skip ELSE add]
    /\ UNCHANGED <<purgeVars, ctxDone, nodeVars, confVars, fx, loadVars, addedFuncs,
                   dispatcher, connects, clientConnected>>

\* dispatcher.AddFunc(name, ...)
ConnectAddFunc(c, at, name, then) ==
    /\ connPc[c] = at
    /\ dispatcher' = [dispatcher EXCEPT ![name] = @ + 1]
    /\ connPc' = [connPc EXCEPT ![c] = then]
    /\ UNCHANGED <<purgeVars, ctxDone, nodeVars, confVars, fx, loadVars, addedFuncs,
                   connects, clientConnected>>

\* addedFuncs[name] = true
ConnectMark(c, at, name, then) ==
    /\ connPc[c] = at
    /\ addedFuncs' = Marked(addedFuncs, name)
    /\ connPc' = [connPc EXCEPT ![c] = then]
    /\ UNCHANGED <<purgeVars, ctxDone, nodeVars, confVars, fx, loadVars, dispatcher,
                   connects, clientConnected>>

\* Connect returns.
ConnectReturn(c) ==
    /\ connPc[c] = "return"
    /\ connPc' = [connPc EXCEPT ![c] = "idle"]
    /\ connects' = connects + 1
    /\ UNCHANGED <<purgeVars, ctxDone, nodeVars, confVars, fx, loadVars, addedFuncs,
                   dispatcher, clientConnected>>

CheckPing(c) == ConnectCheck(c, "checkPing", "Ping", "addPing", "checkPurge")
AddPing(c) == ConnectAddFunc(c, "addPing", "Ping", "markPing")
MarkPing(c) == ConnectMark(c, "markPing", "Ping", "checkPurge")
CheckPurge(c) ==
    ConnectCheck(c, "checkPurge", "PurgeAnalyticsData", "addPurge", "return")
AddPurge(c) == ConnectAddFunc(c, "addPurge", "PurgeAnalyticsData", "markPurge")
MarkPurge(c) == ConnectMark(c, "markPurge", "PurgeAnalyticsData", "return")

\* The RPC client connects or loses its connection.
ClientConnection ==
    /\ clientConnected' = ~clientConnected
    /\ UNCHANGED <<purgeVars, ctxDone, nodeVars, confVars, fx, loadVars, addedFuncs,
                   dispatcher, connPc, connects>>

NextConnect ==
    \/ \E c \in Callers : ConnectBegin(c)
    \/ \E c \in Callers : CheckPing(c)
    \/ \E c \in Callers : AddPing(c)
    \/ \E c \in Callers : MarkPing(c)
    \/ \E c \in Callers : CheckPurge(c)
    \/ \E c \in Callers : AddPurge(c)
    \/ \E c \in Callers : MarkPurge(c)
    \/ \E c \in Callers : ConnectReturn(c)
    \/ ClientConnection

\* Calls of Connect that have begun and not returned.
InConnect == {c \in Callers : connPc[c] \notin {"idle", "fatal"}}

\* Caller c enters Connect in its own goroutine, whether or not another call
\* is in progress.
ConnectBeginConcurrently(c) ==
    /\ connPc[c] = "idle"
    /\ connects + Cardinality(InConnect) < MaxConnects
    /\ connPc' = [connPc EXCEPT ![c] = "checkPing"]
    /\ fx' = IF clientConnected
             THEN <<>>
             ELSE << <<"Error", "RPC client is not connected, use Connect method 1st">> >>
    /\ UNCHANGED <<purgeVars, ctxDone, nodeVars, confVars, loadVars, addedFuncs,
                   dispatcher, connects, clientConnected>>

\* addedFuncs is a plain map without a lock: when one goroutine is about to
\* write it while another is about to read or write it, the accesses race,
\* and besides reading the old or the new value the runtime may detect the
\* race and end the process ("concurrent map read and map write").
ConnectMapFault ==
    /\ \E c \in Callers : \E d \in Callers \ {c} :
          /\ connPc[c] \in {"markPing", "markPurge"}
          /\ connPc[d] \in {"checkPing", "checkPurge", "markPing", "markPurge"}
    /\ connPc' = [c \in Callers |-> "fatal"]
    /\ UNCHANGED <<purgeVars, ctxDone, nodeVars, confVars, fx, loadVars, addedFuncs,
                   dispatcher, connects, clientConnected>>

NextConnectRace ==
    \/ \E c \in Callers : ConnectBeginConcurrently(c)
    \/ \E c \in Callers : CheckPing(c)
    \/ \E c \in Callers : AddPing(c)
    \/ \E c \in Callers : MarkPing(c)
    \/ \E c \in Callers : CheckPurge(c)
    \/ \E c \in Callers : AddPurge(c)
    \/ \E c \in Callers : MarkPurge(c)
    \/ \E c \in Callers : ConnectReturn(c)
    \/ ConnectMapFault
    \/ ClientConnection

(* ---------------------------- specifications --------------------------- *)

InitPurge ==
    /\ store = [k \in Keys |-> <<>>]
    /\ nextId = 1
    /\ pc = "select"
    /\ i = FirstBucket
    /\ analyticsValues = <<>>
    /\ calls = <<>>
    /\ fetched = [r \in RecordIds |-> 0]
    /\ forwarded = [r \in RecordIds |-> 0]
    /\ tick = FALSE
    /\ ctxDone = FALSE
    /\ hostname = "h1"
    /\ nodeID = "n1"
    /\ PID = 4242
    /\ confFile = MissingFile
    /\ memConfig = ZeroConfig
    /\ backupFiles = [n \in {} |-> MissingFile]
    /\ now = 0
    /\ fx = <<>>
    /\ drl = "nil"
    /\ tags = <<>>
    /\ loadPc = "loop"
    /\ loadTicks = 0
    /\ delivered = 0
    /\ addedFuncs = {}
    /\ dispatcher = [f \in FuncNames |-> 0]
    /\ connPc = [c \in Callers |-> "idle"]
    /\ connects = 0
    /\ clientConnected = TRUE

InitConf ==
    /\ store = [k \in Keys |-> <<>>]
    /\ nextId = 1
    /\ pc = "select"
    /\ i = FirstBucket
    /\ analyticsValues = <<>>
    /\ calls = <<>>
    /\ fetched = [r \in RecordIds |-> 0]
    /\ forwarded = [r \in RecordIds |-> 0]
    /\ tick = FALSE
    /\ ctxDone = FALSE
    /\ hostname = "h1"
    /\ nodeID \in {"", "n1"}
    /\ PID \in {0, 4242}
    /\ confFile \in InitialFiles
    /\ memConfig = configLoad(confFile, ZeroConfig)
    /\ backupFiles = [n \in {} |-> MissingFile]
    /\ now = 0
    /\ fx = <<>>
    /\ drl = "nil"
    /\ tags = <<>>
    /\ loadPc = "loop"
    /\ loadTicks = 0
    /\ delivered = 0
    /\ addedFuncs = {}
    /\ dispatcher = [f \in FuncNames |-> 0]
    /\ connPc = [c \in Callers |-> "idle"]
    /\ connects = 0
    /\ clientConnected = TRUE

InitLoad ==
    /\ store = [k \in Keys |-> <<>>]
    /\ nextId = 1
    /\ pc = "select"
    /\ i = FirstBucket
    /\ analyticsValues = <<>>
    /\ calls = <<>>
    /\ fetched = [r \in RecordIds |-> 0]
    /\ forwarded = [r \in RecordIds |-> 0]
    /\ tick = FALSE
    /\ ctxDone = FALSE
    /\ hostname = "h1"
    /\ nodeID \in {"", "n1"}
    /\ PID = 4242
    /\ confFile = MissingFile
    /\ memConfig = ZeroConfig
    /\ backupFiles = [n \in {} |-> MissingFile]
    /\ now = 0
    /\ fx = <<>>
    /\ drl = "nil"
    /\ tags \in TagLists
    /\ loadPc = "loop"
    /\ loadTicks = 0
    /\ delivered = 0
    /\ addedFuncs = {}
    /\ dispatcher = [f \in FuncNames |-> 0]
    /\ connPc = [c \in Callers |-> "idle"]
    /\ connects = 0
    /\ clientConnected = TRUE

InitConnect ==
    /\ store = [k \in Keys |-> <<>>]
    /\ nextId = 1
    /\ pc = "select"
    /\ i = FirstBucket
    /\ analyticsValues = <<>>
    /\ calls = <<>>
    /\ fetched = [r \in RecordIds |-> 0]
    /\ forwarded = [r \in RecordIds |-> 0]
    /\ tick = FALSE
    /\ ctxDone = FALSE
    /\ hostname = "h1"
    /\ nodeID = "n1"
    /\ PID = 4242
    /\ confFile = MissingFile
    /\ memConfig = ZeroConfig
    /\ backupFiles = [n \in {} |-> MissingFile]
    /\ now = 0
    /\ fx = <<>>
    /\ drl = "nil"
    /\ tags = <<>>
    /\ loadPc = "loop"
    /\ loadTicks = 0
    /\ delivered = 0
    /\ addedFuncs = {}
    /\ dispatcher = [f \in FuncNames |-> 0]
    /\ connPc = [c \in Callers |-> "idle"]
    /\ connects = 0
    /\ clientConnected \in BOOLEAN

\* The purge loop with the gateway enqueueing records.
SpecPurge == InitPurge /\ [][NextPurge]_vars

\* The bus delivering configuration pushes and pull requests to one node.
SpecConf == InitConf /\ [][NextConf]_vars

\* The load-reporter goroutine of one node.
SpecLoad == InitLoad /\ [][NextLoad]_vars

\* Purger.Connect called again and again, one call at a time.
SpecConnect == InitConnect /\ [][NextConnect]_vars

\* Purger.Connect called from goroutines that may overlap.
SpecConnectRace == InitConnect /\ [][NextConnectRace]_vars

(* ------------------------------- shutdown ------------------------------ *)

\* The queues when the loops are started: all empty, or one element waiting
\* in one of them.
QueuesAtShutdown ==
    {[k \in Keys |-> <<>>]}
    \cup {[k \in Keys |-> IF k = analyticsKeyName(b) THEN <<Element(1, enc)>> ELSE <<>>] :
            b \in EnqueueBuckets, enc \in Encodings}

InitShutdown ==
    /\ store \in QueuesAtShutdown
    /\ nextId = 1 + Cardinality({k \in Keys : store[k] # <<>>})
    /\ pc = "select"
    /\ i = FirstBucket
    /\ analyticsValues = <<>>
    /\ calls = <<>>
    /\ fetched = [r \in RecordIds |-> 0]
    /\ forwarded = [r \in RecordIds |-> 0]
    /\ tick = FALSE
    /\ ctxDone = FALSE
    /\ hostname = "h1"
    /\ nodeID \in {"", "n1"}
    /\ PID = 4242
    /\ confFile = MissingFile
    /\ memConfig = ZeroConfig
    /\ backupFiles = [n \in {} |-> MissingFile]
    /\ now = 0
    /\ fx = <<>>
    /\ drl = "ready"
    /\ tags = <<>>
    /\ loadPc = "loop"
    /\ loadTicks = 0
    /\ delivered = 0
    /\ addedFuncs = {}
    /\ dispatcher = [f \in FuncNames |-> 0]
    /\ connPc = [c \in Callers |-> "idle"]
    /\ connects = 0
    /\ clientConnected = TRUE

NextShutdown ==
    \/ TickerFire
    \/ Cancel
    \/ PurgeLoopDone
    \/ PurgeLoopTick
    \/ Ping
    \/ Fetch
    \/ Forward
    \/ LoadReporterTick
    \/ LoadReporterSleep
    \/ LoadReporterDone

\* The two goroutines run: a step of PurgeCache that can be taken is taken
\* (the calls return), time.Sleep returns, and the load reporter's select
\* takes ctx.Done() once it is ready. PurgeLoop's select picks at random
\* among its ready cases, so ctx.Done(), ready each time the loop is back at
\* the select, is not passed over for ever.
FairShutdown ==
    /\ WF_vars(Ping)
    /\ WF_vars(Fetch)
    /\ WF_vars(Forward)
    /\ SF_vars(PurgeLoopDone)
    /\ WF_vars(LoadReporterSleep)
    /\ WF_vars(LoadReporterDone)

\* The purge loop and the load reporter of one process, up to their return.
SpecShutdown == InitShutdown /\ [][NextShutdown]_vars /\ FairShutdown

(* ------------------------- purge pipeline: claims ---------------------- *)

IsPing(e) == e[1] = "Ping"
IsFetch(e) == e[1] = "GetAndDeleteSet"
IsPurge(e) == e[1] = "PurgeAnalyticsData"
IsEmit(e) == e[1] = "EmitErrorEvent"

\* The current (or last) cycle's preflight ping returned an error.
PingFailedCycle == Len(calls) >= 1 /\ IsPing(calls[1]) /\ calls[1][2]

\* PurgeCache is not running: the loop is in its select or has returned.
CycleOver == pc \in {"select", "returned"} /\ calls # <<>>

\* The cycle ended in the json.Marshal error branch: the failed-record count
\* was logged and nothing was forwarded after it.
MarshalFailedCycle == CycleOver /\ calls[Len(calls)][1] = "Debugf"

IsPrefix(s, t) == Len(s) <= Len(t) /\ \A j \in 1 .. Len(s) : s[j] = t[j]

\* C1: in a purge cycle whose preflight ping fails, PurgeCache makes no
\* GetAndDeleteSet call and no PurgeAnalyticsData call (the ping is the only
\* call of the cycle), and no step taken while that cycle is the current one
\* removes or alters an element of any of the 11 queues.
C1_PingFailureTouchesNothing ==
    /\ [](PingFailedCycle => /\ calls = <<<<"Ping", TRUE>>>>
                             /\ pc \in {"select", "returned"})
    /\ [][PingFailedCycle' => \A k \in Keys : IsPrefix(store[k], store'[k])]_vars

C1_Witness ==
    /\ PingFailedCycle
    /\ \E k \in Keys : Len(store[k]) >= 2

Decodable(v) == v.enc # "garbage"

\* C2: every PurgeAnalyticsData call forwards exactly the records that
\* decoded, in order: n fetched elements of which k do not decode give an
\* array of length n - k and a logged failed-record count of k.
C2_ForwardsExactlyDecoded ==
    \A j \in 1 .. Len(calls) :
        IsPurge(calls[j]) =>
            LET vals == calls[j - 2][3]
                good == SelectSeq(vals, Decodable)
                data == calls[j][2]
            IN  /\ Len(data) = Len(good)
                /\ \A x \in 1 .. Len(data) : data[x].id = good[x].id
                /\ calls[j - 1][2] = Len(vals) - Len(good)

InSomeQueue(r) ==
    \E k \in Keys : \E j \in 1 .. Len(store[k]) : store[k][j].id = r

\* C3: purge is at-most-once. A record is returned by GetAndDeleteSet at most
\* once and carried by at most one PurgeAnalyticsData call; once fetched it is
\* in no queue again, whether its forward succeeded, failed or never happened;
\* and only fetched records are ever forwarded.
C3_AtMostOnce ==
    \A r \in RecordIds :
        /\ fetched[r] <= 1
        /\ forwarded[r] <= 1
        /\ forwarded[r] <= fetched[r]
        /\ fetched[r] = 1 => ~InSomeQueue(r)

\* A forward failed in this cycle, its records are gone from the queues, and
\* the same queue has been written to again since.
C3_Witness ==
    \E j \in 1 .. Len(calls) :
        /\ IsPurge(calls[j])
        /\ calls[j][3]
        /\ \E r \in IdsOf(calls[j][2]) : forwarded[r] = 1 /\ ~InSomeQueue(r)
        /\ store[calls[j - 2][2]] # <<>>

\* The bucket index whose key is k.
BucketOf(k) == CHOOSE b \in Buckets : analyticsKeyName(b) = k

FetchedInCycle(b) ==
    \E j \in 1 .. Len(calls) :
        IsFetch(calls[j]) /\ calls[j][2] = analyticsKeyName(b)

\* Bucket b was fetched non-empty and then handed to PurgeAnalyticsData.
ForwardedIfNonEmpty(b) ==
    \A j \in 1 .. Len(calls) :
        (IsFetch(calls[j]) /\ calls[j][2] = analyticsKeyName(b)
            /\ calls[j][3] # <<>> /\ pc # "forward")
        => (j + 2 <= Len(calls) /\ IsPurge(calls[j + 2]))

FailedPurgeAt(j) == IsPurge(calls[j]) /\ calls[j][3]

\* C4 as claimed: after a failed PurgeAnalyticsData call an error event is
\* emitted and, by the end of the cycle, every later bucket up to 9 has been
\* fetched and, if non-empty, forwarded.
C4_LaterBucketsAlwaysProcessed ==
    \A j \in 1 .. Len(calls) :
        FailedPurgeAt(j) =>
            /\ j + 1 <= Len(calls) /\ IsEmit(calls[j + 1])
            /\ CycleOver =>
                 \A b \in Buckets :
                    b > BucketOf(calls[j - 2][2])
                       => FetchedInCycle(b) /\ ForwardedIfNonEmpty(b)

\* C4 amended: a failed PurgeAnalyticsData call emits an error event and does
\* not end the cycle: the next bucket index (if any) is fetched next, and the
\* cycle fetches every later bucket up to 9 and forwards the non-empty ones,
\* unless marshalling the records of one of them fails, which ends the cycle.
C4_PurgeFailureContinues ==
    \A j \in 1 .. Len(calls) :
        FailedPurgeAt(j) =>
            LET b == BucketOf(calls[j - 2][2])
            IN  /\ j + 1 <= Len(calls) /\ IsEmit(calls[j + 1])
                /\ (j + 1 = Len(calls) /\ b + 1 < BucketLimit)
                      => (pc = "fetch" /\ i = b + 1)
                /\ (j + 2 <= Len(calls))
                      => (IsFetch(calls[j + 2])
                            /\ calls[j + 2][2] = analyticsKeyName(b + 1))
                /\ (CycleOver /\ ~MarshalFailedCycle) =>
                      \A c \in Buckets :
                         c > b => FetchedInCycle(c) /\ ForwardedIfNonEmpty(c)

\* The forward of the legacy bucket failed and the cycle still ran to its end,
\* forwarding a later bucket.
C4_Witness ==
    /\ CycleOver
    /\ ~MarshalFailedCycle
    /\ \E j \in 1 .. Len(calls) :
          /\ FailedPurgeAt(j)
          /\ \E m \in (j + 1) .. Len(calls) : IsPurge(calls[m])

\* The GetAndDeleteSet calls of the current (or last) cycle, in order.
Fetches == SelectSeq(calls, IsFetch)

NonEmptyIn(F) == Cardinality({j \in 1 .. Len(F) : F[j][3] # <<>>})

Purges == Cardinality({j \in 1 .. Len(calls) : IsPurge(calls[j])})

\* The j-th fetch of a cycle is that of bucket j - 2: -1, 0, 1, ...
InBucketOrder(F) ==
    /\ Len(F) <= BucketLimit - FirstBucket
    /\ \A j \in 1 .. Len(F) : F[j][2] = analyticsKeyName(FirstBucket + j - 1)

\* An empty result is followed by the next fetch, if by anything, and a
\* PurgeAnalyticsData call comes only two calls after a non-empty fetch.
EmptyBucketsSkipped ==
    \A j \in 1 .. Len(calls) :
        /\ (IsFetch(calls[j]) /\ calls[j][3] = <<>> /\ j < Len(calls))
              => IsFetch(calls[j + 1])
        /\ IsPurge(calls[j])
              => (j > 2 /\ IsFetch(calls[j - 2]) /\ calls[j - 2][3] # <<>>)

\* C19 as claimed: a cycle whose ping succeeded has, when it is over, fetched
\* each of the 11 keys once in the order -1, 0, .., 9 and made as many
\* PurgeAnalyticsData calls as fetches returned a non-empty result.
C19_AllBucketsFetchedOnce ==
    LET F == Fetches
    IN  /\ InBucketOrder(F)
        /\ EmptyBucketsSkipped
        /\ (CycleOver /\ ~PingFailedCycle) =>
              /\ Len(F) = BucketLimit - FirstBucket
              /\ Purges = NonEmptyIn(F)

\* C19 amended: in every cycle the keys are fetched in the order -1, 0, ..,
\* 9 with none skipped and none fetched twice, an empty result causes no
\* remote call and the next key is fetched after it; a cycle whose ping
\* succeeded and in which no marshalling failed has, when it is over, fetched
\* all 11 keys and made as many PurgeAnalyticsData calls as fetches returned
\* a non-empty result; a cycle ended by a marshalling failure made one call
\* fewer and fetched no key after the failing one.
C19_BucketsFetchedInOrder ==
    LET F == Fetches
    IN  /\ InBucketOrder(F)
        /\ EmptyBucketsSkipped
        /\ (CycleOver /\ ~PingFailedCycle /\ ~MarshalFailedCycle) =>
              /\ Len(F) = BucketLimit - FirstBucket
              /\ Purges = NonEmptyIn(F)
        /\ MarshalFailedCycle =>
              /\ Purges = NonEmptyIn(F) - 1
              /\ IsFetch(calls[Len(calls) - 1])

\* A cycle is over in which the first and the last key returned elements, the
\* keys between them returned none, and both results were forwarded.
C19_Witness ==
    /\ CycleOver
    /\ Len(Fetches) = BucketLimit - FirstBucket
    /\ Fetches[1][3] # <<>>
    /\ Fetches[2][3] = <<>>
    /\ Fetches[Len(Fetches)][3] # <<>>
    /\ Purges = 2

(* ----------------------- configuration sync: claims -------------------- *)

\* The handler last run was handleNewConfiguration, and its payload.
PushHandled == fx # <<>> /\ fx[1][1] = "handleNewConfiguration"
PullHandled == fx # <<>> /\ fx[1][1] = "handleSendMiniConfig"

IsBackupWrite(e) == e[1] = "WriteFile" /\ e[2] # PrimaryPath
IsPrimaryWrite(e) == e[1] = "WriteFile" /\ e[2] = PrimaryPath
IsKill(e) == e[1] = "Kill"

\* No file write and no signal in the effects f.
NoEffect(f) == \A j \in 1 .. Len(f) : f[j][1] \notin {"WriteFile", "Kill"}

\* In the effects f, a write of the primary file comes only after a backup
\* write that succeeded.
BackupPrecedesWrite(f) ==
    \A j \in 1 .. Len(f) :
        IsPrimaryWrite(f[j]) =>
            \E m \in 1 .. (j - 1) : IsBackupWrite(f[m]) /\ f[m][3] = "ok"

BackupFailedIn(f) ==
    \E j \in 1 .. Len(f) : IsBackupWrite(f[j]) /\ f[j][3] # "ok"

\* C5: a push handling writes the primary configuration file only after it
\* has written a backup holding the in-memory configuration; when the backup
\* write fails, the handling leaves the primary file as it was, attempts no
\* write of it and sends no reload signal.
C5_BackupBeforeOverwrite ==
    /\ [](PushHandled =>
            /\ BackupPrecedesWrite(fx)
            /\ \A j \in 1 .. Len(fx) :
                 (IsBackupWrite(fx[j]) /\ fx[j][3] = "ok")
                    => backupFiles[fx[j][2]] = JsonFile(memConfig))
    /\ [][confFile' # confFile =>
            (\E j \in 1 .. Len(fx') : IsPrimaryWrite(fx'[j])) /\ BackupPrecedesWrite(fx')]_vars
    /\ [][BackupFailedIn(fx') =>
            /\ confFile' = confFile
            /\ \A j \in 1 .. Len(fx') : ~IsPrimaryWrite(fx'[j]) /\ ~IsKill(fx'[j])]_vars

\* A push reached the backup step on a node with a configuration file, and
\* the backup write failed.
C5_Witness ==
    /\ PushHandled
    /\ BackupFailedIn(fx)
    /\ confFile.kind = "json"

\* C6: a push has an effect only on a node whose hostname equals ForHostname
\* or whose node id equals ForNodeID; when both differ no file changes and no
\* signal is sent; and a match on one field alone is enough to reach the
\* policy check, so that with remote configuration allowed the backup is
\* attempted.
C6_AddressedByEitherField ==
    /\ [](PushHandled /\ ~NoEffect(fx)
            => (fx[1][2].ForHostname = hostname \/ fx[1][2].ForNodeID = nodeID))
    /\ [][(fx' # <<>> /\ fx'[1][1] = "handleNewConfiguration"
             /\ fx'[1][2].ForHostname # hostname /\ fx'[1][2].ForNodeID # nodeID)
            => (confFile' = confFile /\ backupFiles' = backupFiles /\ NoEffect(fx'))]_vars
    /\ [](PushHandled /\ fx[1][2].decodes /\ AllowRemoteConfig(memConfig)
             /\ (fx[1][2].ForHostname = hostname \/ fx[1][2].ForNodeID = nodeID)
            => (Len(fx) >= 2 /\ IsBackupWrite(fx[2])))

\* A push for hostname "h1" with an empty ForNodeID is applied on the node
\* "h1" whose node id is "n1".
C6_Witness ==
    /\ PushHandled
    /\ fx[1][2].ForHostname = "h1" /\ hostname = "h1"
    /\ fx[1][2].ForNodeID = "" /\ nodeID = "n1"
    /\ \E j \in 1 .. Len(fx) : IsPrimaryWrite(fx[j]) /\ fx[j][3] = "ok"

\* C7: no reload signal is sent when the recorded PID is 0, and every reload
\* signal sent goes to the recorded PID.
C7_ReloadOnlyOwnPid ==
    \A j \in 1 .. Len(fx) : IsKill(fx[j]) => (PID # 0 /\ fx[j][2] = PID)

\* The new configuration was written on a node whose PID is 0, and nothing
\* was signalled.
C7_Witness ==
    /\ PushHandled
    /\ PID = 0
    /\ \E j \in 1 .. Len(fx) : IsPrimaryWrite(fx[j]) /\ fx[j][3] = "ok"

IsConfigResponse(e) == e[1] = "Notify" /\ e[2] = "NoticeGatewayConfigResponse"

\* C8: every configuration response on the bus carries the top-level map of
\* the configuration file without the keys secret, node_secret, storage,
\* slave_options and auth_override, and with every other key and its value.
C8_ResponseIsSanitized ==
    \A j \in 1 .. Len(fx) :
        IsConfigResponse(fx[j]) =>
            LET sent == fx[j][3].Configuration
                kept == DOMAIN confFile.doc
                          \ {"secret", "node_secret", "storage", "slave_options", "auth_override"}
            IN  /\ confFile.kind = "json"
                /\ DOMAIN sent = kept
                /\ \A k \in kept : sent[k] = confFile.doc[k]

\* The file {secret, storage, listen_port: 8080} is answered with
\* {listen_port: 8080}.
C8_Witness ==
    /\ PullHandled
    /\ DOMAIN confFile.doc = {"secret", "storage", "listen_port"}
    /\ \E j \in 1 .. Len(fx) :
          /\ IsConfigResponse(fx[j])
          /\ DOMAIN fx[j][3].Configuration = {"listen_port"}
          /\ fx[j][3].Configuration["listen_port"] = "8080"

\* The payload of the push in the effects f names this node.
PushAddressedHere(f) ==
    /\ f # <<>>
    /\ f[1][1] = "handleNewConfiguration"
    /\ f[1][2].decodes
    /\ (f[1][2].ForHostname = hostname \/ f[1][2].ForNodeID = nodeID)

\* C12: on a node whose configuration in memory does not allow remote
\* configuration, a push addressed to the node writes no backup file, leaves
\* the primary file as it was and sends no signal.
C12_PolicyBlocksPush ==
    [][(PushAddressedHere(fx') /\ memConfig["allow_remote_config"] # "true")
          => (/\ confFile' = confFile
              /\ backupFiles' = backupFiles
              /\ NoEffect(fx'))]_vars

\* A push addressed by hostname arrived at a node that holds a configuration
\* file and does not allow remote configuration.
C12_Witness ==
    /\ PushAddressedHere(fx)
    /\ fx[1][2].ForHostname = hostname
    /\ memConfig["allow_remote_config"] = "false"
    /\ confFile.kind = "json"
    /\ Len(fx) = 1

ConfigResponses(f) == Cardinality({j \in 1 .. Len(f) : IsConfigResponse(f[j])})

\* C13: the handling of a configuration request puts at most one response on
\* the bus, and none when the request's hostname and node id both differ from
\* this node's or when the configuration file cannot be read or decoded; a
\* response carries this node's hostname and node id.
C13_AtMostOneResponse ==
    PullHandled =>
        /\ ConfigResponses(fx) <= 1
        /\ (fx[1][2].FromHostname # hostname /\ fx[1][2].FromNodeID # nodeID)
              => ConfigResponses(fx) = 0
        /\ confFile.kind # "json" => ConfigResponses(fx) = 0
        /\ \A j \in 1 .. Len(fx) :
              IsConfigResponse(fx[j]) =>
                  /\ fx[j][3].FromHostname = hostname
                  /\ fx[j][3].FromNodeID = nodeID

\* A request naming another hostname and this node's id was answered.
C13_Witness ==
    /\ PullHandled
    /\ fx[1][2].FromHostname = "h2" /\ fx[1][2].FromNodeID = "n1"
    /\ ConfigResponses(fx) = 1
    /\ fx[2][3].FromHostname = "h1" /\ fx[2][3].FromNodeID = "n1"

Kills(f) == Cardinality({j \in 1 .. Len(f) : IsKill(f[j])})

\* The effects f hold a write of the primary file that succeeded.
PrimaryWritten(f) == \E j \in 1 .. Len(f) : IsPrimaryWrite(f[j]) /\ f[j][3] = "ok"

\* C15 as claimed: a push handling that wrote the new configuration to the
\* primary file sends exactly one reload signal, and no handling sends more
\* than one.
C15_OneSignalPerWrite ==
    PushHandled =>
        /\ Kills(fx) <= 1
        /\ PrimaryWritten(fx) => Kills(fx) = 1

\* C15 amended: a push handling that wrote the new configuration to the
\* primary file sends exactly one reload signal when the recorded PID is not
\* 0 and none when it is 0; no handling sends more than one.
C15_OneSignalPerWriteWithPid ==
    PushHandled =>
        /\ Kills(fx) <= 1
        /\ PrimaryWritten(fx) => Kills(fx) = IF PID # 0 THEN 1 ELSE 0

\* The new configuration was written on a node that knows its PID, and the
\* signal was sent.
C15_Witness ==
    /\ PushHandled
    /\ PrimaryWritten(fx)
    /\ PID # 0
    /\ IsKill(fx[Len(fx)])

\* A file write in the effects f failed.
WriteFailedIn(f) == \E j \in 1 .. Len(f) : f[j][1] = "WriteFile" /\ f[j][3] # "ok"

\* C16: when the backup write or the write of the primary file fails during a
\* push handling, no reload signal is sent and the primary file and the set
\* of backup files are what they were before the push was handled.
C16_FailedWriteChangesNothing ==
    [][(fx' # <<>> /\ fx'[1][1] = "handleNewConfiguration" /\ WriteFailedIn(fx'))
          => (/\ Kills(fx') = 0
              /\ confFile' = confFile
              /\ backupFiles' = backupFiles)]_vars

\* C17: the document a push handling writes to the primary file holds, for
\* every field the payload names, the payload's value, and for every other
\* field of the file as it was before the push, the value it had there.
C17_WrittenIsFileOverlaidWithPayload ==
    [][(fx' # <<>> /\ fx'[1][1] = "handleNewConfiguration" /\ PrimaryWritten(fx'))
          => LET pushed == fx'[1][2].Configuration
             IN  /\ confFile'.kind = "json"
                 /\ \A k \in DOMAIN pushed : confFile'.doc[k] = pushed[k]
                 /\ confFile.kind = "json" =>
                       \A k \in DOMAIN confFile.doc \ DOMAIN pushed :
                           confFile'.doc[k] = confFile.doc[k]]_vars

\* The push {listen_port: 9090} was written over a file holding a secret and
\* the permission for remote configuration, and both are still in the file.
C17_Witness ==
    /\ PushHandled
    /\ PrimaryWritten(fx)
    /\ DOMAIN fx[1][2].Configuration = {"listen_port"}
    /\ confFile.doc["listen_port"] = "9090"
    /\ confFile.doc["secret"] = "s3cr3t"
    /\ confFile.doc["allow_remote_config"] = "true"

\* C18: a push whose payload does not decode writes no backup file, leaves
\* the primary file as it was and sends no signal.
C18_UndecodablePushChangesNothing ==
    [][(fx' # <<>> /\ fx'[1][1] = "handleNewConfiguration" /\ ~fx'[1][2].decodes)
          => (/\ confFile' = confFile
              /\ backupFiles' = backupFiles
              /\ NoEffect(fx'))]_vars

\* An undecodable push arrived at a node that allows remote configuration
\* and whose empty node id equals the ForNodeID of an empty payload.
C18_Witness ==
    /\ PushHandled
    /\ ~fx[1][2].decodes
    /\ nodeID = ""
    /\ memConfig["allow_remote_config"] = "true"
    /\ Len(fx) = 1

(* --------------------------- load reporter: claims --------------------- *)

IsLoadReport(e) == e[1] = "Notify" /\ e[2] = "NoticeGatewayDRLNotification"

LoadReports(f) == Cardinality({j \in 1 .. Len(f) : IsLoadReport(f[j])})

\* C9: every load report carries LoadPerSec 1 when the rate measured for it
\* was 0 and the measured rate itself when that was greater than 0; no report
\* carries a load of 0.
C9_LoadFlooredToOne ==
    \A j \in 1 .. Len(fx) :
        IsLoadReport(fx[j]) =>
            /\ j > 1 /\ fx[j - 1][1] = "Rate"
            /\ fx[j - 1][2] = 0 => fx[j][3].LoadPerSec = 1
            /\ fx[j - 1][2] > 0 => fx[j][3].LoadPerSec = fx[j - 1][2]
            /\ fx[j][3].LoadPerSec # 0

C9_Witness ==
    \E j \in 2 .. Len(fx) :
        IsLoadReport(fx[j]) /\ fx[j - 1][2] = 0 /\ fx[j][3].LoadPerSec = 1

\* C10 as claimed: an iteration of the load-reporter loop emits exactly one
\* load report when the node id is non-empty and none when it is empty.
C10_OneReportPerRegisteredTick ==
    [][loadTicks' # loadTicks =>
          LoadReports(fx') = IF nodeID # "" THEN 1 ELSE 0]_vars

\* C10 amended: an iteration of the load-reporter loop emits exactly one load
\* report when the node id is non-empty and the DRL manager is set up and
\* ready, and none when the node id is empty or the manager is missing or
\* not ready.
C10_OneReportPerReadyTick ==
    [][loadTicks' # loadTicks =>
          LoadReports(fx') = IF nodeID # "" /\ drl = "ready" THEN 1 ELSE 0]_vars

\* An iteration on a registered node with a ready manager has emitted its
\* report.
C10_Witness ==
    /\ loadTicks >= 1
    /\ nodeID # ""
    /\ drl = "ready"
    /\ LoadReports(fx) = 1

(* --------------------------- load consumer: claims --------------------- *)

IsAddOrUpdate(e) == e[1] = "AddOrUpdateServer"

AddOrUpdates(f) == Cardinality({j \in 1 .. Len(f) : IsAddOrUpdate(f[j])})

\* Nothing but the debug line follows a failed AddOrUpdateServer in f.
NothingAfterFailedUpdate(f) ==
    \A j \in 1 .. Len(f) :
        IsAddOrUpdate(f[j]) /\ f[j][2] # "nil" =>
            \A k \in (j + 1) .. Len(f) : f[k][1] = "Debug"

\* C11: for every load-report message delivered to the handler,
\* AddOrUpdateServer is called at most once, and not at all when the DRL
\* manager is missing or not ready or when the payload does not decode; after
\* an error from AddOrUpdateServer the handler only logs and returns: no second
\* call and no change to the node's state.
C11_AtMostOneUpdatePerMessage ==
    [][delivered' # delivered =>
          /\ fx'[1][1] = "onServerStatusReceivedHandler"
          /\ AddOrUpdates(fx') <= 1
          /\ (~DRLReady \/ fx'[1][2][1] # "json") => AddOrUpdates(fx') = 0
          /\ NothingAfterFailedUpdate(fx')
          /\ UNCHANGED <<drl, tags, loadPc, loadTicks, nodeVars, ctxDone>>]_vars

\* A decodable report reached a ready manager, which rejected it.
C11_Witness ==
    /\ delivered >= 1
    /\ Len(fx) = 3
    /\ IsAddOrUpdate(fx[2])
    /\ fx[2][2] = "different tag group"
    /\ fx[3][1] = "Debug"

(* ------------------------------ RPC stubs: claims ---------------------- *)

\* C14: however many times Connect has been called, one call at a time, each
\* of "Ping" and "PurgeAnalyticsData" has been registered with the dispatcher
\* at most once, and exactly once as soon as one call has returned.
C14_StubsRegisteredOnce ==
    \A f \in FuncNames :
        /\ dispatcher[f] <= 1
        /\ connects >= 1 => dispatcher[f] = 1

\* Connect has returned twice, and a third call is past both checks.
C14_Witness ==
    /\ connects = 2
    /\ \E c \in Callers : connPc[c] = "return"
    /\ \A f \in FuncNames : dispatcher[f] = 1

(* ------------------------------ shutdown: claims ----------------------- *)

InCycle == pc \in {"ping", "fetch", "forward"}

\* C20: once the context is cancelled, PurgeLoop and the load-reporter loop
\* both return in the end; the load reporter, back at its select after the
\* cancellation, starts no iteration and emits nothing; and neither loop
\* returns from anywhere but its select, so that a purge cycle or an
\* iteration under way when the cancellation comes runs to its end.
C20_LoopsReturnAfterCancel ==
    /\ ctxDone ~> pc = "returned"
    /\ ctxDone ~> loadPc = "returned"
    /\ [][(ctxDone /\ loadPc = "loop")
            => (loadPc' \in {"loop", "returned"} /\ loadTicks' = loadTicks /\ fx' = fx)]_vars
    /\ [][InCycle => pc' # "returned"]_vars
    /\ [][loadPc = "sleep" => loadPc' # "returned"]_vars
    /\ (ctxDone /\ InCycle) ~> (pc = "select" /\ CycleOver)

\* Both loops have returned after a cycle that fetched all the keys and an
\* iteration of the load reporter.
C20_Witness ==
    /\ ctxDone
    /\ pc = "returned"
    /\ loadPc = "returned"
    /\ Len(Fetches) = BucketLimit - FirstBucket
    /\ loadTicks >= 1

(* ------------------------- purge loop: scheduling ---------------------- *)

\* C21: a PurgeCache call starts only from the loop's select, by receiving
\* one tick, so never while an earlier call is still running; a tick that
\* fires during a cycle waits in the channel and is received only after the
\* cycle has returned.
C21_NoOverlappingCycles ==
    [][/\ (pc' = "ping" /\ pc # "ping") => (pc = "select" /\ tick /\ ~tick')
       /\ InCycle => (pc' # "ping" \/ pc = "ping")
       /\ InCycle => (tick => tick')]_vars

\* A tick has fired while the cycle is at its remote call, and waits.
C21_Witness ==
    /\ pc = "forward"
    /\ tick
    /\ Len(calls) >= 2

(* -------------------------- RPC stubs: concurrency --------------------- *)

\* C22: whatever the interleaving of Connect calls running in different
\* goroutines, each of "Ping" and "PurgeAnalyticsData" has been registered
\* with the dispatcher at most once.
C22_RegisteredOnceUnderRace ==
    \A f \in FuncNames : dispatcher[f] <= 1

(* ------------------------ purge cycle: marshal error ------------------- *)

\* The failed-record count logged at j was not followed by a remote call:
\* json.Marshal failed for the bucket fetched at j - 1.
MarshalFailedAt(j) ==
    /\ calls[j][1] = "Debugf"
    /\ (j = Len(calls) \/ ~IsPurge(calls[j + 1]))

\* C23: when marshalling the records of a bucket fails, the cycle ends there:
\* nothing is called for that bucket or after it, so no bucket with a higher
\* index is fetched in that cycle, and no step of that cycle, the failing one
\* included, removes or alters an element of any queue; the elements fetched
\* from the failing bucket are in no queue again.
C23_MarshalFailureEndsCycle ==
    /\ [](\A j \in 1 .. Len(calls) :
             MarshalFailedAt(j) =>
                 /\ j = Len(calls)
                 /\ pc \in {"select", "returned"}
                 /\ IsFetch(calls[j - 1])
                 /\ \A b \in Buckets :
                       b > BucketOf(calls[j - 1][2]) => ~FetchedInCycle(b)
                 /\ \A r \in IdsOf(calls[j - 1][3]) :
                       fetched[r] = 1 /\ forwarded[r] = 0 /\ ~InSomeQueue(r))
    /\ [][MarshalFailedCycle' => \A k \in Keys : IsPrefix(store[k], store'[k])]_vars

\* Marshalling failed for the first bucket while elements wait in the last.
C23_Witness ==
    /\ MarshalFailedCycle
    /\ calls[Len(calls) - 1][2] = analyticsKeyName(FirstBucket)
    /\ store[analyticsKeyName(BucketLimit - 1)] # <<>>

====
